---- MODULE Spec2Model ----
(***************************************************************************)
(* State-machine model of app.py: the course-enrollment web application.   *)
(* The persisted store is the five tables Usuario, Categoria, Curso, Video *)
(* and Inscripcion.  A route handler h is an operator h(k, inputs): the    *)
(* outcome of the request on the current state, that is the response the   *)
(* caller receives and the tables and session the request leaves.  The     *)
(* action H(k, inputs) commits that outcome.                               *)
(* An optional column (nullable, or the session's user id) is a set: {}    *)
(* for None and {v} for a value.                                           *)
(***************************************************************************)
EXTENDS Integers, FiniteSets, Sequences, TLC

VARIABLES usuarios, categorias, cursos, videos, inscripciones,
          session, now, token_seq, redeemed, inflight, redeeming, creating

vars == <<usuarios, categorias, cursos, videos, inscripciones,
          session, now, token_seq, redeemed, inflight, redeeming, creating>>

tables == <<usuarios, categorias, cursos, videos, inscripciones>>

\* The requests in progress on the server's threads.
threads == <<inflight, redeeming, creating>>

\* ---------------------------------------------------------------- bounds
\* The clock runs over 0..MaxTime (one unit = one hour) where the password
\* recovery is explored (SpecReset) and over 0..MainTime elsewhere; at most
\* MaxTokens reset tokens are issued.
MaxTime == 2
MainTime == 1
MaxTokens == 2
\* The raw urls a video form may post have at most MaxUrlLen segments.
MaxUrlLen == 3
\* No primary key of a content table grows beyond MaxId.
MaxId == 3
\* Row cap of the enrollment table.
MaxInscripciones == 2

\* timedelta(hours=1), in clock units
Hour == 1

\* ---------------------------------------------------------------- inputs
\* The values requests are made of.  The properties quantify over these sets.
Clients == {"k1"}
Threads == {"th1", "th2"}
Methods == {"GET", "POST"}
AdminEmail == "admin@cursos.com"
AdminPassword == "admin123"
Emails == {AdminEmail, "a@x.com", "nobody@x.com"}
Passwords == {AdminPassword, "pw1", "pw2"}
Tokens == 1..MaxTokens
CursoIds == 1..MaxId
CategoriaIds == 1..MaxId
VideoIds == 1..MaxId
SeedCategorias == <<"SQL y Bases de Datos", "Python desde Cero", "Desarrollo Web">>
SeedCursos == <<"SQL para Principiantes", "Consultas Avanzadas MySQL", "Introducción a Python">>
SeedVideos == <<"Instalación de MySQL", "Select y From", "Hola Mundo en Python">>
\* A url is the sequence of its segments.
SeedUrls == << <<"https://", "www.youtube.com/", "embed/", "WuBcTJnIuzo">>,
               <<"https://", "www.youtube.com/", "embed/", "yPu6qV5byu4">>,
               <<"https://", "www.youtube.com/", "embed/", "DcojabcVqTE">> >>
FormNombres == {"Math", "Desarrollo Web"}
FormTitulos == {"Algebra"}
FormUrls == { <<"https://", "www.youtube.com/", "watch?v=", "ABC123">>,
              <<"https://", "youtu.be/", "ABC123">> }

\* The requests a specification explores.  The ones that change the state are
\* drawn from narrower sets, which keeps the reachable states finite and few.
\* Main explores enrollment and the content tables, and asks a password
\* recovery for unregistered emails only.
Main ==
  [registro_emails |-> {"a@x.com"}, registro_passwords |-> {"pw1"},
   reset_emails |-> {"nobody@x.com"}, new_passwords |-> {"pw2"},
   enroll_cursos |-> {3}, edit_methods |-> Methods,
   edit_categorias |-> {3}, edit_cursos |-> {3}, edit_videos |-> {3}, nombres |-> {"Math"},
   max_time |-> MainTime]

\* Recovery explores the password recovery of both users and a registration
\* under the bootstrap's email, with administrative requests that change
\* nothing (a GET of a form, an id no row has).
Recovery ==
  [registro_emails |-> {AdminEmail, "a@x.com"}, registro_passwords |-> {"pw1"},
   reset_emails |-> {AdminEmail, "a@x.com"}, new_passwords |-> {"pw2"},
   enroll_cursos |-> {3}, edit_methods |-> {"GET"},
   edit_categorias |-> {MaxId + 1}, edit_cursos |-> {MaxId + 1}, edit_videos |-> {MaxId + 1},
   nombres |-> {"Math"}, max_time |-> MaxTime]

\* Racing explores two concurrent enrollments next to the deletion of the course.
Racing ==
  [Main EXCEPT !.edit_categorias = {MaxId + 1}, !.edit_videos = {MaxId + 1}]

\* ---------------------------------------------------------------- helpers
None == {}

Some(v) == {v}

Max(S) == CHOOSE x \in S : \A y \in S : y <= x

\* An Integer primary key: the next rowid of the table.
NextId(rows) == IF rows = {} THEN 1 ELSE Max({r.id : r \in rows}) + 1

\* werkzeug.security: the hash keeps the method and what it was derived from;
\* verification recomputes it from the candidate password.
generate_password_hash(password) == <<"pbkdf2:sha256", password>>

check_password_hash(pwhash, password) == pwhash = generate_password_hash(password)

\* Usuario.query.filter_by(email=email): email is unique, so at most one row.
UsuarioByEmail(email) == {u \in usuarios : u.email = email}

\* Usuario.query.filter_by(reset_token=token)
UsuarioByToken(token) == {u \in usuarios : u.reset_token = Some(token)}

\* Inscripcion.query.filter_by(usuario_id=..., curso_id=...)
InscripcionesDe(uid, cid) == {i \in inscripciones : i.usuario_id = uid /\ i.curso_id = cid}

\* flask_login: current_user of the request context of client k.
is_authenticated(k) == session[k] # None

current_user(k) == CHOOSE u \in usuarios : u.id \in session[k]

NoData == [categorias |-> {}, cursos |-> {}, videos |-> {}, token |-> None]

\* What the caller receives: a redirect to an endpoint, a rendered template or
\* an abort status, the url argument, the flashed notice and the template context.
Resp(kind, target, arg, flash, flash_arg, data) ==
  [kind |-> kind, target |-> target, arg |-> arg,
   flash |-> flash, flash_arg |-> flash_arg, data |-> data]

\* redirect(url_for(target, arg)) after flash(flash)
Redirect(target, arg, flash, flash_arg) == Resp("redirect", target, arg, flash, flash_arg, NoData)

\* render_template(template, data) after flash(flash)
Render(template, flash, data) == Resp("render", template, None, flash, "", data)

\* get_or_404, or an exception the handler does not catch (status 500)
Abort(status) == Resp("abort", status, None, "", "", NoData)

\* login_required: LoginManager.unauthorized() with login_view = 'login'
Unauthorized == Redirect("login", None, "Please log in to access this page.", "")

\* The outcome of a request that commits nothing.
Same(resp) ==
  [response |-> resp, usuarios |-> usuarios, categorias |-> categorias, cursos |-> cursos,
   videos |-> videos, inscripciones |-> inscripciones, session |-> session]

\* The request's outcome becomes the state (db.session.commit, the session cookie).
Commit(r) ==
  /\ usuarios' = r.usuarios
  /\ categorias' = r.categorias
  /\ cursos' = r.cursos
  /\ videos' = r.videos
  /\ inscripciones' = r.inscripciones
  /\ session' = r.session

\* ---------------------------------------------------------------- initial state
Init ==
  /\ usuarios = {}
  /\ categorias = {}
  /\ cursos = {}
  /\ videos = {}
  /\ inscripciones = {}
  /\ session = [k \in Clients |-> None]
  /\ now = 0
  /\ token_seq = 0
  /\ redeemed = {}
  /\ inflight = [t \in Threads |-> None]
  /\ redeeming = [t \in Threads |-> None]
  /\ creating = [t \in Threads |-> None]

\* ---------------------------------------------------------------- routes
\* GET /
index(k) ==
  IF is_authenticated(k)
  THEN Same(Render("inicio.html", "", [NoData EXCEPT !.categorias = categorias]))
  ELSE Same(Redirect("login", None, "", ""))

\* registro creating the user with the admin flag set
registro_admin(k, method, email, password) ==
  IF method = "POST"
  THEN IF UsuarioByEmail(email) # {}
       THEN Same(Redirect("registro", None, "El correo ya existe.", ""))
       ELSE [Same(Redirect("login", None, "Cuenta creada. Por favor inicia sesión.", ""))
             EXCEPT !.usuarios = usuarios \cup
                      {[id |-> NextId(usuarios), email |-> email,
                        password_hash |-> generate_password_hash(password),
                        is_admin |-> TRUE, reset_token |-> None, token_expiration |-> None]}]
  ELSE Same(Render("registro.html", "", NoData))

\* GET, POST /registro
registro(k, method, email, password) ==
  IF method = "POST"
  THEN IF UsuarioByEmail(email) # {}
       THEN Same(Redirect("registro", None, "El correo ya existe.", ""))
       ELSE [Same(Redirect("login", None, "Cuenta creada. Por favor inicia sesión.", ""))
             EXCEPT !.usuarios = usuarios \cup
                      {[id |-> NextId(usuarios), email |-> email,
                        password_hash |-> generate_password_hash(password),
                        is_admin |-> FALSE, reset_token |-> None, token_expiration |-> None]}]
  ELSE Same(Render("registro.html", "", NoData))

\* login telling an unknown email from a wrong password
login_revela(k, method, email, password) ==
  IF method = "POST"
  THEN IF \E u \in UsuarioByEmail(email) : check_password_hash(u.password_hash, password)
       THEN [Same(Redirect("index", None, "", ""))
             EXCEPT !.session = [session EXCEPT ![k] = {u.id : u \in UsuarioByEmail(email)}]]
       ELSE IF UsuarioByEmail(email) = {}
       THEN Same(Render("login.html", "Ese correo no está registrado.", NoData))
       ELSE Same(Render("login.html", "Correo o contraseña incorrectos.", NoData))
  ELSE Same(Render("login.html", "", NoData))

\* GET, POST /login
login(k, method, email, password) ==
  IF method = "POST"
  THEN IF \E u \in UsuarioByEmail(email) : check_password_hash(u.password_hash, password)
       THEN [Same(Redirect("index", None, "", ""))
             EXCEPT !.session = [session EXCEPT ![k] = {u.id : u \in UsuarioByEmail(email)}]]
       ELSE Same(Render("login.html", "Correo o contraseña incorrectos.", NoData))
  ELSE Same(Render("login.html", "", NoData))

\* ver_categoria without login_required
ver_categoria_sin_login(k, id_categoria) ==
  IF ~\E c \in categorias : c.id = id_categoria THEN Same(Abort("404"))
  ELSE Same(Render("categoria.html", "",
                   [NoData EXCEPT !.categorias = {c \in categorias : c.id = id_categoria},
                                  !.cursos = {c \in cursos : c.categoria_id = id_categoria}]))

\* GET /categoria/<id_categoria>
ver_categoria(k, id_categoria) ==
  IF ~is_authenticated(k) THEN Same(Unauthorized)
  ELSE IF ~\E c \in categorias : c.id = id_categoria THEN Same(Abort("404"))
  ELSE Same(Render("categoria.html", "",
                   [NoData EXCEPT !.categorias = {c \in categorias : c.id = id_categoria},
                                  !.cursos = {c \in cursos : c.categoria_id = id_categoria}]))

\* logout without login_required
logout_sin_login(k) ==
  [Same(Redirect("login", None, "", "")) EXCEPT !.session = [session EXCEPT ![k] = None]]

\* GET /logout
logout(k) ==
  IF ~is_authenticated(k) THEN Same(Unauthorized)
  ELSE [Same(Redirect("login", None, "", "")) EXCEPT !.session = [session EXCEPT ![k] = None]]

\* Inscripcion(usuario_id=..., curso_id=...) added to the table: the model declares
\* no unique constraint on the pair, so the insert never collides.
nueva_inscripcion(uid, id_curso) ==
  inscripciones \cup {[id |-> NextId(inscripciones), usuario_id |-> uid, curso_id |-> id_curso]}

\* inscribirse without the look-up of an existing row
inscribirse_sin_consulta(k, id_curso) ==
  IF ~is_authenticated(k) THEN Same(Unauthorized)
  ELSE IF ~\E c \in cursos : c.id = id_curso THEN Same(Abort("404"))
  ELSE [Same(Redirect("ver_curso", Some(id_curso), "¡Te has inscrito exitosamente!",
                      (CHOOSE c \in cursos : c.id = id_curso).titulo))
        EXCEPT !.inscripciones = nueva_inscripcion(current_user(k).id, id_curso)]

\* GET /inscribirse/<id_curso>
inscribirse(k, id_curso) ==
  IF ~is_authenticated(k) THEN Same(Unauthorized)
  ELSE IF ~\E c \in cursos : c.id = id_curso THEN Same(Abort("404"))
  ELSE IF InscripcionesDe(current_user(k).id, id_curso) = {}
  THEN [Same(Redirect("ver_curso", Some(id_curso), "¡Te has inscrito exitosamente!",
                      (CHOOSE c \in cursos : c.id = id_curso).titulo))
        EXCEPT !.inscripciones = nueva_inscripcion(current_user(k).id, id_curso)]
  ELSE Same(Redirect("ver_curso", Some(id_curso), "Ya estás inscrito en este curso.", ""))

\* ver_curso without the enrollment test
ver_curso_sin_permiso(k, id_curso) ==
  IF ~is_authenticated(k) THEN Same(Unauthorized)
  ELSE IF ~\E c \in cursos : c.id = id_curso THEN Same(Abort("404"))
  ELSE Same(Render("ver_curso.html", "", [NoData EXCEPT !.cursos = {c \in cursos : c.id = id_curso}]))

\* GET /curso/<id_curso>
ver_curso(k, id_curso) ==
  IF ~is_authenticated(k) THEN Same(Unauthorized)
  ELSE IF ~\E c \in cursos : c.id = id_curso THEN Same(Abort("404"))
  ELSE IF InscripcionesDe(current_user(k).id, id_curso) = {}
  THEN Same(Render("curso_no_autorizado.html", "Debes inscribirte para ver este contenido.",
                   [NoData EXCEPT !.cursos = {c \in cursos : c.id = id_curso}]))
  ELSE Same(Render("ver_curso.html", "", [NoData EXCEPT !.cursos = {c \in cursos : c.id = id_curso}]))

\* GET /admin
admin_dashboard(k) ==
  IF ~is_authenticated(k) THEN Same(Unauthorized)
  ELSE IF ~current_user(k).is_admin
  THEN Same(Redirect("index", None, "¡Alto ahí! No tienes permisos de administrador.", ""))
  ELSE Same(Render("admin_dashboard.html", "",
                   [NoData EXCEPT !.categorias = categorias, !.cursos = cursos, !.videos = videos]))

\* GET, POST /admin/crear-categoria
crear_categoria(k, method, nombre) ==
  IF ~is_authenticated(k) THEN Same(Unauthorized)
  ELSE IF ~current_user(k).is_admin THEN Same(Redirect("index", None, "", ""))
  ELSE IF method = "POST"
  THEN IF \E c \in categorias : c.nombre = nombre
       THEN Same(Render("crear_categoria.html", "¡Esa categoría ya existe!", NoData))
       ELSE [Same(Redirect("admin_dashboard", None, "Categoría creada correctamente.", nombre))
             EXCEPT !.categorias = categorias \cup {[id |-> NextId(categorias), nombre |-> nombre]}]
  ELSE Same(Render("crear_categoria.html", "", NoData))

\* GET, POST /admin/crear-curso.  fk: whether the store enforces foreign keys
\* (PostgreSQL under DATABASE_URL does, the local SQLite file does not); a
\* rejected insert changes nothing, so the store's kind is an input of the
\* request and no part of the state.
crear_curso(k, method, titulo, categoria_id, fk) ==
  IF ~is_authenticated(k) THEN Same(Unauthorized)
  ELSE IF ~current_user(k).is_admin THEN Same(Redirect("index", None, "", ""))
  ELSE IF method = "POST"
  THEN IF fk /\ ~\E c \in categorias : c.id = categoria_id
       THEN Same(Abort("500"))
       ELSE [Same(Redirect("admin_dashboard", None, "Curso creado exitosamente.", titulo))
             EXCEPT !.cursos = cursos \cup
                      {[id |-> NextId(cursos), titulo |-> titulo, categoria_id |-> categoria_id]}]
  ELSE Same(Render("crear_curso.html", "", [NoData EXCEPT !.categorias = categorias]))

\* str.replace(old, new) on a url, segment by segment
RECURSIVE Replace(_, _, _)
Replace(url, old, new) ==
  IF url = <<>> THEN <<>>
  ELSE (IF Head(url) = old THEN new ELSE <<Head(url)>>) \o Replace(Tail(url), old, new)

\* `old in url`
Contains(url, old) == \E i \in 1..Len(url) : url[i] = old

\* url_final leaving a link that already has the embed segment as it is
url_final_embed_primero(url_original) ==
  IF Contains(url_original, "embed/") THEN url_original
  ELSE IF Contains(url_original, "watch?v=") THEN Replace(url_original, "watch?v=", <<"embed/">>)
  ELSE IF Contains(url_original, "youtu.be/") THEN Replace(url_original, "youtu.be/", <<"www.youtube.com/", "embed/">>)
  ELSE url_original

\* The embed form of a YouTube link
url_final(url_original) ==
  IF Contains(url_original, "watch?v=") THEN Replace(url_original, "watch?v=", <<"embed/">>)
  ELSE IF Contains(url_original, "youtu.be/") THEN Replace(url_original, "youtu.be/", <<"www.youtube.com/", "embed/">>)
  ELSE url_original

\* GET, POST /admin/crear-video
crear_video(k, method, titulo, url, curso_id, fk) ==
  IF ~is_authenticated(k) THEN Same(Unauthorized)
  ELSE IF ~current_user(k).is_admin THEN Same(Redirect("index", None, "", ""))
  ELSE IF method = "POST"
  THEN IF fk /\ ~\E c \in cursos : c.id = curso_id
       THEN Same(Abort("500"))
       ELSE [Same(Redirect("admin_dashboard", None, "Video agregado al curso.", titulo))
             EXCEPT !.videos = videos \cup
                      {[id |-> NextId(videos), titulo |-> titulo,
                        url_video |-> url_final(url), curso_id |-> curso_id]}]
  ELSE Same(Render("crear_video.html", "", [NoData EXCEPT !.cursos = cursos]))

\* borrar_curso deleting the course together with its videos and enrollments
borrar_curso_cascada(k, id) ==
  IF ~is_authenticated(k) THEN Same(Unauthorized)
  ELSE IF ~current_user(k).is_admin THEN Same(Redirect("index", None, "", ""))
  ELSE IF ~\E c \in cursos : c.id = id THEN Same(Abort("404"))
  ELSE [Same(Redirect("admin_dashboard", None, "Curso eliminado.", (CHOOSE c \in cursos : c.id = id).titulo))
        EXCEPT !.cursos = {c \in cursos : c.id # id},
               !.videos = {v \in videos : v.curso_id # id},
               !.inscripciones = {i \in inscripciones : i.curso_id # id}]

\* GET /admin/borrar-curso/<id>.  The relationships videos and inscritos carry no
\* delete cascade: the unit of work blanks the children's curso_id, which is
\* NOT NULL, so the commit of a course that has children raises IntegrityError.
borrar_curso(k, id) ==
  IF ~is_authenticated(k) THEN Same(Unauthorized)
  ELSE IF ~current_user(k).is_admin THEN Same(Redirect("index", None, "", ""))
  ELSE IF ~\E c \in cursos : c.id = id THEN Same(Abort("404"))
  ELSE IF (\E v \in videos : v.curso_id = id) \/ (\E i \in inscripciones : i.curso_id = id)
  THEN Same(Abort("500"))
  ELSE [Same(Redirect("admin_dashboard", None, "Curso eliminado.", (CHOOSE c \in cursos : c.id = id).titulo))
        EXCEPT !.cursos = {c \in cursos : c.id # id}]

\* GET /admin/borrar-categoria/<id>.  As for a course: Curso.categoria_id is NOT NULL.
borrar_categoria(k, id) ==
  IF ~is_authenticated(k) THEN Same(Unauthorized)
  ELSE IF ~current_user(k).is_admin THEN Same(Redirect("index", None, "", ""))
  ELSE IF ~\E c \in categorias : c.id = id THEN Same(Abort("404"))
  ELSE IF \E c \in cursos : c.categoria_id = id THEN Same(Abort("500"))
  ELSE [Same(Redirect("admin_dashboard", None, "Categoría eliminada.", (CHOOSE c \in categorias : c.id = id).nombre))
        EXCEPT !.categorias = {c \in categorias : c.id # id}]

\* borrar_video without the is_admin test
borrar_video_sin_admin(k, id) ==
  IF ~is_authenticated(k) THEN Same(Unauthorized)
  ELSE IF ~\E v \in videos : v.id = id THEN Same(Abort("404"))
  ELSE [Same(Redirect("admin_dashboard", None, "Video eliminado correctamente.", ""))
        EXCEPT !.videos = {v \in videos : v.id # id}]

\* GET /admin/borrar-video/<id>
borrar_video(k, id) ==
  IF ~is_authenticated(k) THEN Same(Unauthorized)
  ELSE IF ~current_user(k).is_admin THEN Same(Redirect("index", None, "", ""))
  ELSE IF ~\E v \in videos : v.id = id THEN Same(Abort("404"))
  ELSE [Same(Redirect("admin_dashboard", None, "Video eliminado correctamente.", ""))
        EXCEPT !.videos = {v \in videos : v.id # id}]

\* GET, POST /admin/editar-curso/<id>
editar_curso(k, method, id, titulo, categoria_id, fk) ==
  IF ~is_authenticated(k) THEN Same(Unauthorized)
  ELSE IF ~current_user(k).is_admin THEN Same(Redirect("index", None, "", ""))
  ELSE IF ~\E c \in cursos : c.id = id THEN Same(Abort("404"))
  ELSE IF method = "POST"
  THEN IF fk /\ ~\E c \in categorias : c.id = categoria_id
       THEN Same(Abort("500"))
       ELSE [Same(Redirect("admin_dashboard", None, "Curso actualizado exitosamente.", ""))
             EXCEPT !.cursos = {c \in cursos : c.id # id} \cup
                               {[id |-> id, titulo |-> titulo, categoria_id |-> categoria_id]}]
  ELSE Same(Render("editar_curso.html", "",
                   [NoData EXCEPT !.cursos = {c \in cursos : c.id = id}, !.categorias = categorias]))

\* ---------------------------------------------------------------- password recovery
Value(opt) == CHOOSE v \in opt : TRUE

\* secrets.token_urlsafe(16): 128 random bits, a value no earlier call returned
token_urlsafe == token_seq + 1

\* olvide_password answering an unknown email as it answers a known one
olvide_password_callado(k, method, email) ==
  IF method = "POST"
  THEN [Same(Redirect("login", None,
                      "Te hemos enviado un correo con las instrucciones (¡Revisa la terminal!).", ""))
        EXCEPT !.usuarios = {IF u.email = email
                             THEN [u EXCEPT !.reset_token = Some(token_urlsafe),
                                            !.token_expiration = Some(now + Hour)]
                             ELSE u : u \in usuarios}]
  ELSE Same(Render("olvide_password.html", "", NoData))

\* olvide_password keeping a token that is pending and renewing its hour
olvide_password_conserva(k, method, email) ==
  IF method = "POST"
  THEN IF UsuarioByEmail(email) # {}
       THEN [Same(Redirect("login", None,
                           "Te hemos enviado un correo con las instrucciones (¡Revisa la terminal!).", ""))
             EXCEPT !.usuarios = {IF u.email = email
                                  THEN [u EXCEPT !.reset_token = IF @ = None THEN Some(token_urlsafe) ELSE @,
                                                 !.token_expiration = Some(now + Hour)]
                                  ELSE u : u \in usuarios}]
       ELSE Same(Render("olvide_password.html", "Ese correo no está registrado.", NoData))
  ELSE Same(Render("olvide_password.html", "", NoData))

\* GET, POST /olvide-password
olvide_password(k, method, email) ==
  IF method = "POST"
  THEN IF UsuarioByEmail(email) # {}
       THEN [Same(Redirect("login", None,
                           "Te hemos enviado un correo con las instrucciones (¡Revisa la terminal!).", ""))
             EXCEPT !.usuarios = {IF u.email = email
                                  THEN [u EXCEPT !.reset_token = Some(token_urlsafe),
                                                 !.token_expiration = Some(now + Hour)]
                                  ELSE u : u \in usuarios}]
       ELSE Same(Render("olvide_password.html", "Ese correo no está registrado.", NoData))
  ELSE Same(Render("olvide_password.html", "", NoData))

\* The expiration test with <= for <
Expired_inclusive(u) == Value(u.token_expiration) <= now

\* The expiration test left out
Expired_never(u) == FALSE

\* `usuario.token_expiration < datetime.utcnow()`
Expired(u) == Value(u.token_expiration) < now

\* reset_password leaving the token stored
reset_password_sin_limpiar(k, method, token, password) ==
  IF UsuarioByToken(token) = {} \/ Expired(Value(UsuarioByToken(token)))
  THEN Same(Redirect("olvide_password", None, "El enlace es inválido o ha expirado.", ""))
  ELSE IF method = "POST"
  THEN [Same(Redirect("login", None, "¡Contraseña actualizada! Ahora puedes iniciar sesión.", ""))
        EXCEPT !.usuarios = {IF u.reset_token = Some(token)
                             THEN [u EXCEPT !.password_hash = generate_password_hash(password)]
                             ELSE u : u \in usuarios}]
  ELSE Same(Render("reset_password.html", "", [NoData EXCEPT !.token = Some(token)]))

\* reset_password clearing the fields of a token it finds expired
reset_password_limpia_expirado(k, method, token, password) ==
  IF UsuarioByToken(token) = {}
  THEN Same(Redirect("olvide_password", None, "El enlace es inválido o ha expirado.", ""))
  ELSE IF Expired(Value(UsuarioByToken(token)))
  THEN [Same(Redirect("olvide_password", None, "El enlace es inválido o ha expirado.", ""))
        EXCEPT !.usuarios = {IF u.reset_token = Some(token)
                             THEN [u EXCEPT !.reset_token = None, !.token_expiration = None]
                             ELSE u : u \in usuarios}]
  ELSE IF method = "POST"
  THEN [Same(Redirect("login", None, "¡Contraseña actualizada! Ahora puedes iniciar sesión.", ""))
        EXCEPT !.usuarios = {IF u.reset_token = Some(token)
                             THEN [u EXCEPT !.password_hash = generate_password_hash(password),
                                            !.reset_token = None, !.token_expiration = None]
                             ELSE u : u \in usuarios}]
  ELSE Same(Render("reset_password.html", "", [NoData EXCEPT !.token = Some(token)]))

\* reset_password storing the new hash on every user
reset_password_todos(k, method, token, password) ==
  IF UsuarioByToken(token) = {} \/ Expired(Value(UsuarioByToken(token)))
  THEN Same(Redirect("olvide_password", None, "El enlace es inválido o ha expirado.", ""))
  ELSE IF method = "POST"
  THEN [Same(Redirect("login", None, "¡Contraseña actualizada! Ahora puedes iniciar sesión.", ""))
        EXCEPT !.usuarios = {IF u.reset_token = Some(token)
                             THEN [u EXCEPT !.password_hash = generate_password_hash(password),
                                            !.reset_token = None, !.token_expiration = None]
                             ELSE [u EXCEPT !.password_hash = generate_password_hash(password)] : u \in usuarios}]
  ELSE Same(Render("reset_password.html", "", [NoData EXCEPT !.token = Some(token)]))

\* GET, POST /reset-password/<token>
reset_password(k, method, token, password) ==
  IF UsuarioByToken(token) = {} \/ Expired(Value(UsuarioByToken(token)))
  THEN Same(Redirect("olvide_password", None, "El enlace es inválido o ha expirado.", ""))
  ELSE IF method = "POST"
  THEN [Same(Redirect("login", None, "¡Contraseña actualizada! Ahora puedes iniciar sesión.", ""))
        EXCEPT !.usuarios = {IF u.reset_token = Some(token)
                             THEN [u EXCEPT !.password_hash = generate_password_hash(password),
                                            !.reset_token = None, !.token_expiration = None]
                             ELSE u : u \in usuarios}]
  ELSE Same(Render("reset_password.html", "", [NoData EXCEPT !.token = Some(token)]))

\* ---------------------------------------------------------------- CLI
\* flask init-data: four commits; an IntegrityError (a unique nombre or email
\* already stored) ends the command and keeps the commits before it.
init_data ==
  LET c0 == NextId(categorias)
      k0 == NextId(cursos)
      v0 == NextId(videos)
      seeded == [Same(Abort("IntegrityError"))
                 EXCEPT !.categorias = categorias \cup
                          {[id |-> c0 + i - 1, nombre |-> SeedCategorias[i]] : i \in 1..Len(SeedCategorias)},
                        !.cursos = cursos \cup
                          {[id |-> k0, titulo |-> SeedCursos[1], categoria_id |-> c0],
                           [id |-> k0 + 1, titulo |-> SeedCursos[2], categoria_id |-> c0],
                           [id |-> k0 + 2, titulo |-> SeedCursos[3], categoria_id |-> c0 + 1]},
                        !.videos = videos \cup
                          {[id |-> v0, titulo |-> SeedVideos[1], url_video |-> SeedUrls[1], curso_id |-> k0],
                           [id |-> v0 + 1, titulo |-> SeedVideos[2], url_video |-> SeedUrls[2], curso_id |-> k0],
                           [id |-> v0 + 2, titulo |-> SeedVideos[3], url_video |-> SeedUrls[3], curso_id |-> k0 + 1]}]
  IN IF \E c \in categorias : \E i \in 1..Len(SeedCategorias) : c.nombre = SeedCategorias[i]
     THEN Same(Abort("IntegrityError"))
     ELSE IF UsuarioByEmail(AdminEmail) # {}
     THEN seeded
     ELSE [seeded EXCEPT !.response = Resp("print", "¡Datos creados!", None, "", "", NoData),
                         !.usuarios = usuarios \cup
                           {[id |-> NextId(usuarios), email |-> AdminEmail,
                             password_hash |-> generate_password_hash(AdminPassword),
                             is_admin |-> TRUE, reset_token |-> None, token_expiration |-> None]}]

\* ---------------------------------------------------------------- actions
\* A request that issues no token and redeems none.
Request(r) ==
  /\ Commit(r)
  /\ UNCHANGED <<now, token_seq, redeemed, threads>>

Index(k) == Request(index(k))

Registro(k, method, email, password) == Request(registro(k, method, email, password))

Login(k, method, email, password) == Request(login(k, method, email, password))

VerCategoria(k, id_categoria) == Request(ver_categoria(k, id_categoria))

Logout(k) == Request(logout(k))

Inscribirse(k, id_curso) == Request(inscribirse(k, id_curso))

VerCurso(k, id_curso) == Request(ver_curso(k, id_curso))

AdminDashboard(k) == Request(admin_dashboard(k))

CrearCategoria(k, method, nombre) == Request(crear_categoria(k, method, nombre))

CrearCurso(k, method, titulo, categoria_id, fk) == Request(crear_curso(k, method, titulo, categoria_id, fk))

CrearVideo(k, method, titulo, url, curso_id, fk) == Request(crear_video(k, method, titulo, url, curso_id, fk))

BorrarCurso(k, id) == Request(borrar_curso(k, id))

BorrarCategoria(k, id) == Request(borrar_categoria(k, id))

BorrarVideo(k, id) == Request(borrar_video(k, id))

EditarCurso(k, method, id, titulo, categoria_id, fk) == Request(editar_curso(k, method, id, titulo, categoria_id, fk))

InitData == Request(init_data)

\* A token is drawn exactly when the request stores one.
OlvidePassword(k, method, email) ==
  LET r == olvide_password(k, method, email)
  IN /\ Commit(r)
     /\ token_seq' = IF r.usuarios # usuarios THEN token_seq + 1 ELSE token_seq
     /\ UNCHANGED <<now, redeemed, threads>>

\* redeemed records the tokens a request has consumed.
ResetPassword(k, method, token, password) ==
  LET r == reset_password(k, method, token, password)
  IN /\ Commit(r)
     /\ redeemed' = IF r.usuarios # usuarios THEN redeemed \cup {token} ELSE redeemed
     /\ UNCHANGED <<now, token_seq, threads>>

\* datetime.utcnow() advances
Tick ==
  /\ now' = now + 1
  /\ UNCHANGED <<tables, session, token_seq, redeemed, threads>>

\* ---------------------------------------------------------------- specification
\* The steps of the program on the requests of profile P.
Step(P) ==
  \/ \E k \in Clients : Index(k)
  \/ \E k \in Clients, m \in Methods, e \in P.registro_emails, p \in P.registro_passwords : Registro(k, m, e, p)
  \/ \E k \in Clients, m \in Methods, e \in Emails, p \in Passwords : Login(k, m, e, p)
  \/ \E k \in Clients, c \in CategoriaIds : VerCategoria(k, c)
  \/ \E k \in Clients : Logout(k)
  \/ \E k \in Clients, c \in P.enroll_cursos : Inscribirse(k, c)
  \/ \E k \in Clients, c \in CursoIds : VerCurso(k, c)
  \/ \E k \in Clients : AdminDashboard(k)
  \/ \E k \in Clients, m \in P.edit_methods, n \in P.nombres : CrearCategoria(k, m, n)
  \/ \E k \in Clients, m \in P.edit_methods, t \in FormTitulos, c \in P.edit_categorias, fk \in BOOLEAN :
       CrearCurso(k, m, t, c, fk)
  \/ \E k \in Clients, m \in P.edit_methods, t \in FormTitulos, u \in FormUrls, c \in P.edit_cursos, fk \in BOOLEAN :
       CrearVideo(k, m, t, u, c, fk)
  \/ \E k \in Clients, c \in P.edit_cursos : BorrarCurso(k, c)
  \/ \E k \in Clients, c \in P.edit_categorias : BorrarCategoria(k, c)
  \/ \E k \in Clients, v \in P.edit_videos : BorrarVideo(k, v)
  \/ \E k \in Clients, m \in P.edit_methods, c \in P.edit_cursos, t \in FormTitulos, g \in P.edit_categorias, fk \in BOOLEAN :
       EditarCurso(k, m, c, t, g, fk)
  \/ \E k \in Clients, m \in Methods, e \in P.reset_emails : OlvidePassword(k, m, e)
  \/ \E k \in Clients, m \in Methods, t \in Tokens, p \in P.new_passwords : ResetPassword(k, m, t, p)
  \/ InitData
  \/ Tick

\* The bounds of the exploration: a step that would leave them is not taken.
Bounded(P) ==
  /\ now <= P.max_time
  /\ token_seq <= MaxTokens
  /\ Cardinality(inscripciones) <= MaxInscripciones
  /\ \A row \in categorias \cup cursos \cup videos : row.id <= MaxId

Next == Step(Main) /\ Bounded(Main)'

Spec == Init /\ [][Next]_vars

NextReset == Step(Recovery) /\ Bounded(Recovery)'

SpecReset == Init /\ [][NextReset]_vars

\* ---------------------------------------------------------------- concurrent requests
\* Two requests run on two threads of the server: each handler's query and its
\* commit are separate statements of the store, and another request may run
\* between them.  inscribirse up to its query (lines 160-165): the thread goes on
\* to the insert when the user is logged in, the course exists and no row is found.
InscribirseQuery(th, k, id_curso) ==
  /\ inflight[th] = None
  /\ is_authenticated(k)
  /\ \E c \in cursos : c.id = id_curso
  /\ InscripcionesDe(current_user(k).id, id_curso) = {}
  /\ inflight' = [inflight EXCEPT ![th] = Some([usuario_id |-> current_user(k).id, curso_id |-> id_curso])]
  /\ UNCHANGED <<tables, session, now, token_seq, redeemed, redeeming, creating>>

\* inscribirse from the insert on (lines 166-168); a store that enforces foreign
\* keys rejects the row of a course deleted since the query.
InscribirseCommit(th, fk) ==
  /\ inflight[th] # None
  /\ LET q == Value(inflight[th])
     IN inscripciones' = IF fk /\ ~\E c \in cursos : c.id = q.curso_id
                         THEN inscripciones
                         ELSE nueva_inscripcion(q.usuario_id, q.curso_id)
  /\ inflight' = [inflight EXCEPT ![th] = None]
  /\ UNCHANGED <<usuarios, categorias, cursos, videos, session, now, token_seq, redeemed, redeeming, creating>>

NextConc ==
  /\ \/ Step(Racing)
     \/ \E th \in Threads, k \in Clients, c \in Racing.enroll_cursos : InscribirseQuery(th, k, c)
     \/ \E th \in Threads, fk \in BOOLEAN : InscribirseCommit(th, fk)
  /\ Bounded(Racing)'

SpecConc == Init /\ [][NextConc]_vars

\* ---------------------------------------------------------------- concurrent redemptions
\* Redeeming explores the recovery of one user, redeemed on two threads.
Redeeming ==
  [Recovery EXCEPT !.registro_emails = {"a@x.com"}, !.reset_emails = {"a@x.com"},
                   !.enroll_cursos = {MaxId + 1}, !.max_time = MainTime]

\* reset_password committing the new hash and leaving the token for a later commit
reset_commit_en_dos(uid, password) ==
  {IF u.id = uid THEN [u EXCEPT !.password_hash = generate_password_hash(password)] ELSE u : u \in usuarios}

\* reset_password's assignments and commit (lines 414-423): the unit of work
\* writes the three changed columns of the row in one UPDATE of one transaction.
reset_commit(uid, password) ==
  {IF u.id = uid
   THEN [u EXCEPT !.password_hash = generate_password_hash(password),
                  !.reset_token = None, !.token_expiration = None]
   ELSE u : u \in usuarios}

\* A POST of reset_password up to its validity test (lines 407-414): the thread
\* goes on to the update when a user holds the token and it has not expired.
ResetQuery(th, token, password) ==
  /\ redeeming[th] = None
  /\ UsuarioByToken(token) # {}
  /\ ~Expired(Value(UsuarioByToken(token)))
  /\ redeeming' = [redeeming EXCEPT ![th] = Some([usuario_id |-> Value(UsuarioByToken(token)).id,
                                                   token |-> token, password |-> password])]
  /\ UNCHANGED <<tables, session, now, token_seq, redeemed, inflight, creating>>

\* reset_password from the assignments on (lines 415-426)
ResetCommit(th) ==
  /\ redeeming[th] # None
  /\ LET q == Value(redeeming[th])
     IN /\ usuarios' = reset_commit(q.usuario_id, q.password)
        /\ redeemed' = redeemed \cup {q.token}
  /\ redeeming' = [redeeming EXCEPT ![th] = None]
  /\ UNCHANGED <<categorias, cursos, videos, inscripciones, session, now, token_seq, inflight, creating>>

NextRedeem ==
  /\ \/ Step(Redeeming)
     \/ \E th \in Threads, t \in Tokens, p \in Passwords \ {AdminPassword} : ResetQuery(th, t, p)
     \/ \E th \in Threads : ResetCommit(th)
  /\ Bounded(Redeeming)'

SpecRedeem == Init /\ [][NextRedeem]_vars

\* ---------------------------------------------------------------- concurrent creations
\* Duplicating explores registrations and category creations, each also run on
\* two threads.
Duplicating ==
  [Main EXCEPT !.edit_cursos = {MaxId + 1}, !.edit_videos = {MaxId + 1}, !.enroll_cursos = {MaxId + 1}]

\* The insert of a user on a store without the unique index on email
nuevo_usuario_sin_unique(email, password) ==
  usuarios \cup {[id |-> NextId(usuarios), email |-> email,
                  password_hash |-> generate_password_hash(password),
                  is_admin |-> FALSE, reset_token |-> None, token_expiration |-> None]}

\* Usuario(email=..., password_hash=...) added and committed: email is
\* unique=True, so the store rejects the row (IntegrityError) when the email is
\* already there.
nuevo_usuario(email, password) ==
  IF UsuarioByEmail(email) # {} THEN usuarios
  ELSE usuarios \cup {[id |-> NextId(usuarios), email |-> email,
                       password_hash |-> generate_password_hash(password),
                       is_admin |-> FALSE, reset_token |-> None, token_expiration |-> None]}

\* Categoria(nombre=...) added and committed: nombre is unique=True.
nueva_categoria(nombre) ==
  IF \E c \in categorias : c.nombre = nombre THEN categorias
  ELSE categorias \cup {[id |-> NextId(categorias), nombre |-> nombre]}

\* A POST of registro up to its look-up (lines 101-108): the thread goes on to
\* the insert when no user has the email.
RegistroQuery(th, email, password) ==
  /\ creating[th] = None
  /\ UsuarioByEmail(email) = {}
  /\ creating' = [creating EXCEPT ![th] = Some([kind |-> "usuario", key |-> email, password |-> password])]
  /\ UNCHANGED <<tables, session, now, token_seq, redeemed, inflight, redeeming>>

\* A POST of crear_categoria by an administrator up to its look-up (lines 197-206)
CrearCategoriaQuery(th, k, nombre) ==
  /\ creating[th] = None
  /\ is_authenticated(k) /\ current_user(k).is_admin
  /\ ~\E c \in categorias : c.nombre = nombre
  /\ creating' = [creating EXCEPT ![th] = Some([kind |-> "categoria", key |-> nombre, password |-> ""])]
  /\ UNCHANGED <<tables, session, now, token_seq, redeemed, inflight, redeeming>>

\* The insert and commit of either (lines 110-114, 208-211)
CrearCommit(th) ==
  /\ creating[th] # None
  /\ LET q == Value(creating[th])
     IN IF q.kind = "usuario"
        THEN usuarios' = nuevo_usuario(q.key, q.password) /\ categorias' = categorias
        ELSE categorias' = nueva_categoria(q.key) /\ usuarios' = usuarios
  /\ creating' = [creating EXCEPT ![th] = None]
  /\ UNCHANGED <<cursos, videos, inscripciones, session, now, token_seq, redeemed, inflight, redeeming>>

NextDup ==
  /\ \/ Step(Duplicating)
     \/ \E th \in Threads, e \in Duplicating.registro_emails, p \in {"pw1", "pw2"} : RegistroQuery(th, e, p)
     \/ \E th \in Threads, k \in Clients, n \in Duplicating.nombres : CrearCategoriaQuery(th, k, n)
     \/ \E th \in Threads : CrearCommit(th)
  /\ Bounded(Duplicating)'

SpecDup == Init /\ [][NextDup]_vars

\* ---------------------------------------------------------------- video urls
\* The segments a posted url is made of, and every url of at most MaxUrlLen of them.
Segments == {"https://", "www.youtube.com/", "youtu.be/", "watch?v=", "embed/", "ABC123"}

RawUrls == UNION {[1..n -> Segments] : n \in 1..MaxUrlLen}

\* Normalizing explores the creation and deletion of videos.
Normalizing ==
  [Main EXCEPT !.enroll_cursos = {MaxId + 1}, !.edit_categorias = {MaxId + 1}]

NextUrl == Step(Normalizing) /\ Bounded(Normalizing)'

SpecUrl == Init /\ [][NextUrl]_vars

\* ---------------------------------------------------------------- properties
\* P holds of the outcome of each of the eight administrative operations for
\* client k, on every input.
AdminOutcomes(k, P(_)) ==
  /\ P(admin_dashboard(k))
  /\ \A m \in Methods, n \in FormNombres : P(crear_categoria(k, m, n))
  /\ \A m \in Methods, t \in FormTitulos, c \in CategoriaIds, fk \in BOOLEAN : P(crear_curso(k, m, t, c, fk))
  /\ \A m \in Methods, t \in FormTitulos, u \in FormUrls, c \in CursoIds, fk \in BOOLEAN :
       P(crear_video(k, m, t, u, c, fk))
  /\ \A c \in CursoIds : P(borrar_curso(k, c))
  /\ \A c \in CategoriaIds : P(borrar_categoria(k, c))
  /\ \A v \in VideoIds : P(borrar_video(k, v))
  /\ \A m \in Methods, c \in CursoIds, t \in FormTitulos, g \in CategoriaIds, fk \in BOOLEAN :
       P(editar_curso(k, m, c, t, g, fk))

\* P holds of the outcome of every request-path operation for client k, on every input.
RequestOutcomes(k, P(_)) ==
  /\ AdminOutcomes(k, P)
  /\ P(index(k))
  /\ P(logout(k))
  /\ \A m \in Methods, e \in Emails, p \in Passwords : P(registro(k, m, e, p))
  /\ \A m \in Methods, e \in Emails, p \in Passwords : P(login(k, m, e, p))
  /\ \A c \in CategoriaIds : P(ver_categoria(k, c))
  /\ \A c \in CursoIds : P(inscribirse(k, c))
  /\ \A c \in CursoIds : P(ver_curso(k, c))
  /\ \A m \in Methods, e \in Emails : P(olvide_password(k, m, e))
  /\ \A m \in Methods, t \in Tokens, p \in Passwords : P(reset_password(k, m, t, p))

AlreadyEnrolled(id_curso) == Redirect("ver_curso", Some(id_curso), "Ya estás inscrito en este curso.", "")

InvalidOrExpired == Redirect("olvide_password", None, "El enlace es inválido o ha expirado.", "")

\* C1: for an authenticated user u and an existing course c, Enroll(u,c) leaves
\* exactly one Enrollment row for (u,c); called where a row of an earlier call
\* exists, it reports AlreadyEnrolled and creates no row.
C1_EnrollTwiceOneRow ==
  \A k \in Clients, c \in CursoIds :
    (is_authenticated(k) /\ \E x \in cursos : x.id = c) =>
      LET u == current_user(k).id
          r == inscribirse(k, c)
      IN /\ Cardinality({i \in r.inscripciones : i.usuario_id = u /\ i.curso_id = c}) = 1
         /\ InscripcionesDe(u, c) # {} =>
              r.response = AlreadyEnrolled(c) /\ r.inscripciones = inscripciones

\* A user who has enrolled asks again.
C1_Witness ==
  \E k \in Clients, c \in CursoIds :
    /\ is_authenticated(k)
    /\ InscripcionesDe(current_user(k).id, c) # {}
    /\ inscribirse(k, c).response = AlreadyEnrolled(c)

\* C2: for an authenticated user u and an existing course c, ViewCourse(u,c)
\* returns the authorized view iff an Enrollment row for (u,c) exists, the
\* not-authorized view otherwise, and changes no state.
C2_ViewIffEnrolled ==
  \A k \in Clients, c \in CursoIds :
    (is_authenticated(k) /\ \E x \in cursos : x.id = c) =>
      LET r == ver_curso(k, c)
      IN /\ r.response.target = "ver_curso.html" <=> InscripcionesDe(current_user(k).id, c) # {}
         /\ r.response.target \in {"ver_curso.html", "curso_no_autorizado.html"}
         /\ r.response.kind = "render"
         /\ r = Same(r.response)

\* An enrolled user sees one course and is refused another.
C2_Witness ==
  \E k \in Clients, c \in CursoIds, d \in CursoIds :
    /\ is_authenticated(k)
    /\ InscripcionesDe(current_user(k).id, c) # {}
    /\ ver_curso(k, c).response.target = "ver_curso.html"
    /\ ver_curso(k, d).response.target = "curso_no_autorizado.html"

\* C3: at most one Enrollment row per (user, course) in every reachable state,
\* also when two Enroll requests for the pair run concurrently.
C3_UniquePair ==
  \A u \in usuarios, c \in CursoIds : Cardinality(InscripcionesDe(u.id, c)) <= 1

\* C4: every administrative operation invoked by an authenticated principal
\* whose is_admin flag is false ends in a redirect to the home view and leaves
\* the five relations (and the session) unchanged.
C4_NonAdminDenied ==
  \A k \in Clients :
    (is_authenticated(k) /\ ~current_user(k).is_admin) =>
      AdminOutcomes(k, LAMBDA r : /\ r.response.kind = "redirect"
                                  /\ r.response.target = "index"
                                  /\ r = Same(r.response))

\* A non-admin is logged in while there is a video an administrator could delete.
C4_Witness ==
  \E k \in Clients :
    /\ is_authenticated(k)
    /\ ~current_user(k).is_admin
    /\ videos # {}
    /\ borrar_video(k, (CHOOSE v \in videos : TRUE).id).response.target = "index"

\* C5: once RedeemPasswordReset has returned Reset for a token, every later
\* call with that token returns InvalidOrExpired and changes no user.
C5_TokenSingleUse ==
  \A k \in Clients, m \in Methods, t \in redeemed, p \in Passwords :
    LET r == reset_password(k, m, t, p)
    IN r.response = InvalidOrExpired /\ r.usuarios = usuarios

\* A token has been redeemed and is presented again before it would have expired.
C5_Witness ==
  \E k \in Clients, t \in redeemed :
    /\ now <= Hour
    /\ reset_password(k, "POST", t, "pw1").response = InvalidOrExpired

\* C6: a redemption made when the current time is later than the token's
\* stored expiration returns InvalidOrExpired and leaves every password hash
\* unchanged.
C6_ExpiredTokenFails ==
  \A k \in Clients, m \in Methods, t \in Tokens, p \in Passwords :
    \A u \in UsuarioByToken(t) :
      Value(u.token_expiration) < now =>
        LET r == reset_password(k, m, t, p)
        IN /\ r.response = InvalidOrExpired
           /\ \A v \in r.usuarios : \E w \in usuarios : w.id = v.id /\ w.password_hash = v.password_hash

\* A stored token whose hour has passed.
C6_Witness ==
  \E k \in Clients, u \in usuarios :
    /\ u.reset_token # None
    /\ Value(u.token_expiration) < now
    /\ reset_password(k, "POST", Value(u.reset_token), "pw1").response = InvalidOrExpired

\* C7, as the claim states it: a redemption whose stored expiration is at or
\* before the current time fails with InvalidOrExpired.
C7_Original ==
  \A k \in Clients, m \in Methods, t \in Tokens, p \in Passwords :
    \A u \in UsuarioByToken(t) :
      Value(u.token_expiration) <= now => reset_password(k, m, t, p).response = InvalidOrExpired

\* C7, amended: a redemption of a stored token fails with InvalidOrExpired
\* exactly when its expiration is strictly before the current time; at the
\* instant where now equals the expiration it is accepted.
C7_RejectsStrictlyAfter ==
  \A k \in Clients, m \in Methods, t \in Tokens, p \in Passwords :
    \A u \in UsuarioByToken(t) :
      LET r == reset_password(k, m, t, p)
      IN /\ r.response = InvalidOrExpired <=> Value(u.token_expiration) < now
         /\ (Value(u.token_expiration) = now /\ m = "POST") =>
              r.response.target = "login" /\ r.usuarios # usuarios

\* A token presented at the instant of its expiration.
C7_Witness ==
  \E k \in Clients, u \in usuarios :
    /\ u.reset_token # None
    /\ Value(u.token_expiration) = now
    /\ reset_password(k, "POST", Value(u.reset_token), "pw1").response.target = "login"

\* C8: a user has is_admin = true only if the bootstrap created it: every admin
\* carries the bootstrap's email, no request creates an admin or changes the
\* flag of a user, and the bootstrap changes no flag of an existing user.
C8_AdminOnlyByBootstrap ==
  LET FlagsKept(r) == \A u \in usuarios : \E v \in r.usuarios : v.id = u.id /\ v.is_admin = u.is_admin
      NoNewAdmin(r) == \A v \in r.usuarios : v.is_admin => \E u \in usuarios : u.id = v.id
  IN /\ \A u \in usuarios : u.is_admin => u.email = AdminEmail
     /\ FlagsKept(init_data)
     /\ \A k \in Clients : RequestOutcomes(k, LAMBDA r : FlagsKept(r) /\ NoNewAdmin(r))

\* The bootstrap's admin next to a registered user who has redeemed a reset.
C8_Witness ==
  \E u \in usuarios, v \in usuarios :
    /\ u.is_admin
    /\ ~v.is_admin /\ v.reset_token = None /\ v.password_hash = generate_password_hash("pw2")

\* C9, as the claim states it: RequestPasswordReset answers alike whether or
\* not the email is registered.
C9_Original ==
  \A k \in Clients, e \in Emails, f \in Emails :
    olvide_password(k, "POST", e).response = olvide_password(k, "POST", f).response

\* C9, amended: RequestPasswordReset answers a registered email with the
\* 'instructions sent' notice and a redirect to login, and an unregistered one
\* with the 'not registered' notice on the request form, changing nothing.
C9_DisclosesRegistration ==
  \A k \in Clients, e \in Emails :
    LET r == olvide_password(k, "POST", e)
    IN IF UsuarioByEmail(e) # {}
       THEN r.response = Redirect("login", None,
                           "Te hemos enviado un correo con las instrucciones (¡Revisa la terminal!).", "")
       ELSE r = Same(Render("olvide_password.html", "Ese correo no está registrado.", NoData))

\* A registered user holds an issued token while another email is unknown.
C9_Witness ==
  /\ \E u \in usuarios : u.reset_token # None
  /\ \E e \in Emails : UsuarioByEmail(e) = {}

LoginFails(e, p) == ~\E u \in UsuarioByEmail(e) : check_password_hash(u.password_hash, p)

\* C10: two failed logins, whether the email is unknown or the password wrong,
\* get the same response, and a failed login leaves the session binding (and
\* the tables) unchanged.
C10_LoginFailureGeneric ==
  \A k \in Clients, e \in Emails, p \in Passwords :
    LoginFails(e, p) =>
      /\ login(k, "POST", e, p) = Same(login(k, "POST", e, p).response)
      /\ \A f \in Emails, q \in Passwords :
           LoginFails(f, q) => login(k, "POST", f, q).response = login(k, "POST", e, p).response

\* A bound session, a known email with a wrong password and an unknown email.
C10_Witness ==
  \E k \in Clients, e \in Emails, f \in Emails, p \in Passwords :
    /\ is_authenticated(k)
    /\ UsuarioByEmail(e) # {} /\ LoginFails(e, p)
    /\ UsuarioByEmail(f) = {}

\* C11: for every administrative operation and every content-consumption
\* operation (home list, category, enroll, view course), a request of an
\* anonymous client ends in a redirect to login, changes no table and no
\* session, and carries no category, course or video data.
C11_AnonymousRedirected ==
  \A k \in Clients :
    ~is_authenticated(k) =>
      LET ToLogin(r) == /\ r.response.kind = "redirect"
                        /\ r.response.target = "login"
                        /\ r.response.data = NoData
                        /\ r = Same(r.response)
      IN /\ AdminOutcomes(k, ToLogin)
         /\ ToLogin(index(k))
         /\ \A c \in CategoriaIds : ToLogin(ver_categoria(k, c))
         /\ \A c \in CursoIds : ToLogin(inscribirse(k, c))
         /\ \A c \in CursoIds : ToLogin(ver_curso(k, c))

\* An anonymous client asks for a category that exists and has courses.
C11_Witness ==
  \E k \in Clients, c \in cursos :
    /\ ~is_authenticated(k)
    /\ videos # {}
    /\ ver_categoria(k, c.categoria_id).response = Unauthorized

\* The row of user u after the step.
After(u) == CHOOSE v \in usuarios' : v.id = u.id

\* The step commits a redemption of u's credential that submitted password p.
Submitted(u, p) ==
  \/ \E th \in Threads :
       /\ redeeming[th] # None /\ redeeming'[th] = None
       /\ Value(redeeming[th]).usuario_id = u.id /\ Value(redeeming[th]).password = p
  \/ /\ redeeming' = redeeming
     /\ \E k \in Clients, t \in u.reset_token : usuarios' = reset_password(k, "POST", t, p).usuarios

\* A token is cleared only with the write of the password submitted with it,
\* and a hash changes only with the clearing of both token fields.
ClearsWithCredential ==
  \A u \in usuarios :
    /\ (u.reset_token # None /\ After(u).reset_token = None) =>
         \E p \in Passwords : Submitted(u, p) /\ After(u).password_hash = generate_password_hash(p)
    /\ After(u).password_hash # u.password_hash =>
         After(u).reset_token = None /\ After(u).token_expiration = None

\* C12: token consumption is atomic with the credential update.  No state
\* stores a redeemed token, and in every step of every interleaving a user's
\* stored token is cleared by a redemption only together with the write of the
\* password submitted with it, and a password hash changes only together with
\* the clearing of both token fields.
C12_ConsumptionAtomic ==
  /\ [](\A t \in redeemed : UsuarioByToken(t) = {})
  /\ [][ClearsWithCredential]_vars

\* A redemption is in progress for a token another redemption has consumed:
\* the two ran their look-up before either committed.
C12_Witness ==
  \E th \in Threads :
    /\ redeeming[th] # None
    /\ Value(redeeming[th]).token \in redeemed
    /\ \E u \in usuarios : /\ u.id = Value(redeeming[th]).usuario_id
                            /\ u.reset_token = None
                            /\ u.password_hash # generate_password_hash(Value(redeeming[th]).password)

\* The tokens olvide_password has issued so far.
Issued == 1..token_seq

\* A step that issues a token stores it on a user, and the token that user held
\* before is stored on no user afterwards.
IssuesLatest ==
  token_seq' # token_seq =>
    \E v \in usuarios' :
      /\ v.reset_token = Some(token_seq')
      /\ \A u \in usuarios : u.id = v.id =>
           \A t \in u.reset_token : {w \in usuarios' : w.reset_token = Some(t)} = {}

\* C13: at most one live reset token per user.  An issued token no user stores
\* validates no more (InvalidOrExpired, nothing changed), no token is stored by
\* two users, and a request that issues a token replaces the one the user held,
\* so that only the most recently issued token of a user can be redeemed.
C13_OneLiveToken ==
  /\ [](\A t \in Issued :
          /\ Cardinality(UsuarioByToken(t)) <= 1
          /\ UsuarioByToken(t) = {} =>
               \A k \in Clients, m \in Methods, p \in Passwords :
                 reset_password(k, m, t, p) = Same(InvalidOrExpired))
  /\ [][IssuesLatest]_vars

\* A user asked twice: the second token is stored, the first was never
\* redeemed, its hour has not passed, and it validates no more.
C13_Witness ==
  \E k \in Clients, t \in Issued, u \in usuarios :
    /\ t \notin redeemed
    /\ UsuarioByToken(t) = {}
    /\ now <= Hour
    /\ u.reset_token # None /\ Value(u.reset_token) > t
    /\ redeemed = {}
    /\ Cardinality({v \in usuarios : v.reset_token # None}) = 1
    /\ token_seq = 2
    /\ reset_password(k, "POST", t, "pw1").response = InvalidOrExpired

\* C14, as the claim states it: after a redemption is rejected because the
\* token's expiration has passed, the owner's reset_token and token_expiration
\* are both empty.
C14_Original ==
  \A k \in Clients, m \in Methods, p \in Passwords :
    \A u \in usuarios : \A t \in u.reset_token :
      Expired(u) =>
        \A v \in reset_password(k, m, t, p).usuarios :
          v.id = u.id => v.reset_token = None /\ v.token_expiration = None

\* C14, amended: in every state a user's two token fields are both set or both
\* empty, and a redemption rejected because the expiration has passed changes
\* nothing: the expired token and its expiration remain stored.
C14_ExpiredStaysStored ==
  /\ \A u \in usuarios : u.reset_token = None <=> u.token_expiration = None
  /\ \A k \in Clients, m \in Methods, p \in Passwords :
       \A u \in usuarios : \A t \in u.reset_token :
         Expired(u) =>
           /\ reset_password(k, m, t, p) = Same(InvalidOrExpired)
           /\ u \in reset_password(k, m, t, p).usuarios

\* An expired token is presented, next to a user who holds no token.
C14_Witness ==
  \E k \in Clients, u \in usuarios, w \in usuarios :
    /\ u.reset_token # None /\ Expired(u)
    /\ w.reset_token = None
    /\ u \in reset_password(k, "POST", Value(u.reset_token), "pw2").usuarios

\* What the caller of a delete receives when the row is deleted.
Deleted(r) == r.response.kind = "redirect" /\ r.response.target = "admin_dashboard"

\* C15: deletion cascades and leaves no orphaned foreign keys: for an
\* administrator, deleting any existing course or category (with or without
\* dependents) returns Deleted and removes the row, and in every reachable
\* state every video references an existing course, every course an existing
\* category and every enrollment an existing user and course.
C15_DeleteCascades ==
  /\ \A v \in videos : \E c \in cursos : c.id = v.curso_id
  /\ \A c \in cursos : \E g \in categorias : g.id = c.categoria_id
  /\ \A i \in inscripciones : (\E u \in usuarios : u.id = i.usuario_id) /\ (\E c \in cursos : c.id = i.curso_id)
  /\ \A k \in Clients :
       (is_authenticated(k) /\ current_user(k).is_admin) =>
         /\ \A c \in cursos : Deleted(borrar_curso(k, c.id)) /\ c \notin borrar_curso(k, c.id).cursos
         /\ \A g \in categorias : Deleted(borrar_categoria(k, g.id)) /\ g \notin borrar_categoria(k, g.id).categorias

\* C16: enrollment rows are created only by the enroll operation, for the
\* authenticated principal's own user id, and are immutable: the outcome of
\* every operation, on every input, keeps every stored row as it is, and a row
\* it adds is the one inscribirse adds for the requesting user.
C16_EnrollmentImmutable ==
  /\ init_data.inscripciones = inscripciones
  /\ \A k \in Clients :
       RequestOutcomes(k, LAMBDA r :
         /\ inscripciones \subseteq r.inscripciones
         /\ \A i \in r.inscripciones \ inscripciones :
              /\ is_authenticated(k)
              /\ i.usuario_id = current_user(k).id
              /\ r = inscribirse(k, i.curso_id))

\* The administrator asks to delete a course a user is enrolled in.
C16_Witness ==
  \E k \in Clients, i \in inscripciones :
    /\ is_authenticated(k) /\ current_user(k).is_admin
    /\ i.usuario_id # current_user(k).id
    /\ borrar_curso(k, i.curso_id).response = Abort("500")

\* What logout answers a bound session.
LoggedOut == Redirect("login", None, "", "")

\* C17, as the claim states it: Logout without a session is a no-op success
\* that returns the same outcome as the logout of a bound session.
C17_Original ==
  \A k \in Clients : logout(k).response = LoggedOut

\* C17, amended: after Logout the principal is anonymous and nothing else has
\* changed; a bound session gets the redirect to login, and a request without
\* a session is refused by the authentication guard, with the 'Please log in'
\* notice, and changes no state.
C17_LogoutGuarded ==
  \A k \in Clients :
    LET r == logout(k)
    IN /\ r.session[k] = None
       /\ r = [Same(r.response) EXCEPT !.session = [session EXCEPT ![k] = None]]
       /\ is_authenticated(k) => r.response = LoggedOut
       /\ ~is_authenticated(k) => r = Same(Unauthorized) /\ r.response # LoggedOut

\* A registered user exists and the client holds no session.
C17_Witness ==
  \E k \in Clients :
    /\ ~is_authenticated(k)
    /\ \E u \in usuarios : ~u.is_admin
    /\ logout(k).response = Unauthorized

\* C18: duplicate creation is rejected without partial state.  Register with a
\* stored email answers AlreadyExists and Admin.CreateCategory with a stored
\* name answers DuplicateName, each changing nothing, and in every reachable
\* state, also with duplicate requests in progress at once, no two users share
\* an email and no two categories share a name.
C18_DuplicatesRejected ==
  /\ \A u \in usuarios, v \in usuarios : u.email = v.email => u = v
  /\ \A c \in categorias, d \in categorias : c.nombre = d.nombre => c = d
  /\ \A k \in Clients, e \in Emails, p \in Passwords :
       UsuarioByEmail(e) # {} =>
         registro(k, "POST", e, p) = Same(Redirect("registro", None, "El correo ya existe.", ""))
  /\ \A k \in Clients, n \in FormNombres :
       (is_authenticated(k) /\ current_user(k).is_admin /\ \E c \in categorias : c.nombre = n) =>
         crear_categoria(k, "POST", n) = Same(Render("crear_categoria.html", "¡Esa categoría ya existe!", NoData))

\* Two registrations of one email passed the look-up before either committed:
\* one has committed and the other is about to.
C18_Witness ==
  \E th \in Threads :
    /\ creating[th] # None
    /\ Value(creating[th]).kind = "usuario"
    /\ UsuarioByEmail(Value(creating[th]).key) # {}

\* The url_video of the row an administrator's POST of url u to crear_video adds.
Stored(k, u) ==
  (CHOOSE v \in crear_video(k, "POST", "Algebra", u, 1, FALSE).videos \ videos : TRUE).url_video

\* The url has the segment '/embed/'.
HasEmbed(u) == \E i \in 2..Len(u) : u[i] = "embed/" /\ u[i - 1] = "www.youtube.com/"

\* The number of 'youtu.be/' segments before position i of u.
ShortBefore(u, i) == Cardinality({j \in 1..(i - 1) : u[j] = "youtu.be/"})

\* C19, as the claim states it: a url already containing '/embed/' is stored
\* unchanged, also when it contains 'watch?v=' or 'youtu.be/' elsewhere.
C19_Original ==
  \A k \in Clients :
    (is_authenticated(k) /\ current_user(k).is_admin) =>
      \A u \in RawUrls : HasEmbed(u) => Stored(k, u) = u

\* C19, amended: a url containing 'watch?v=' is stored with every such segment
\* replaced by 'embed/'; otherwise a url containing 'youtu.be/' is stored with
\* every such segment rewritten to 'www.youtube.com/embed/'; a url containing
\* neither (with or without '/embed/') is stored unchanged.
C19_NormalizesUrl ==
  \A k \in Clients :
    (is_authenticated(k) /\ current_user(k).is_admin) =>
      \A u \in RawUrls :
        LET s == Stored(k, u)
        IN IF \E i \in 1..Len(u) : u[i] = "watch?v="
           THEN /\ Len(s) = Len(u)
                /\ \A i \in 1..Len(u) : s[i] = IF u[i] = "watch?v=" THEN "embed/" ELSE u[i]
           ELSE IF \E i \in 1..Len(u) : u[i] = "youtu.be/"
           THEN /\ Len(s) = Len(u) + ShortBefore(u, Len(u) + 1)
                /\ \A i \in 1..Len(u) :
                     LET j == i + ShortBefore(u, i)
                     IN IF u[i] = "youtu.be/"
                        THEN s[j] = "www.youtube.com/" /\ s[j + 1] = "embed/"
                        ELSE s[j] = u[i]
           ELSE s = u

\* The administrator has added a video from a watch link or a short link, and
\* it is stored in the embed form.
C19_Witness ==
  \E k \in Clients, v \in videos :
    /\ is_authenticated(k) /\ current_user(k).is_admin
    /\ v.titulo = "Algebra"
    /\ v.url_video = <<"https://", "www.youtube.com/", "embed/", "ABC123">>

\* A step that redeems token t with password p for client k: afterwards the
\* owner logs in with p and with no other password, the owner's row differs
\* only in the hash and the two cleared token fields, every other user's row,
\* every enrollment and content row and every session binding is as before.
Rotates(k, t, p) ==
  /\ usuarios' = reset_password(k, "POST", t, p).usuarios
  /\ \A u \in UsuarioByToken(t) :
       /\ After(u) = [u EXCEPT !.password_hash = generate_password_hash(p),
                               !.reset_token = None, !.token_expiration = None]
       /\ (login(k, "POST", u.email, p).response.target = "index")'
       /\ \A q \in Passwords \ {p} : (login(k, "POST", u.email, q).response.target = "login.html")'
  /\ \A w \in usuarios : w.reset_token # Some(t) => w \in usuarios'
  /\ Cardinality(usuarios') = Cardinality(usuarios)
  /\ UNCHANGED <<categorias, cursos, videos, inscripciones, session>>

RotatesOwner ==
  \A t \in redeemed' \ redeemed : \E k \in Clients, p \in Passwords : Rotates(k, t, p)

\* C20: a successful RedeemPasswordReset(token, p) rotates exactly the token
\* owner's credential, and merely validating a live token (a GET) changes no
\* state.
C20_RotatesOwnerOnly ==
  /\ [](\A k \in Clients, p \in Passwords, u \in usuarios : \A t \in u.reset_token :
          ~Expired(u) =>
            reset_password(k, "GET", t, p) =
              Same(Render("reset_password.html", "", [NoData EXCEPT !.token = Some(t)])))
  /\ [][RotatesOwner]_vars

\* A user has redeemed a token and logs in with the new password only, while
\* another user's pending token is untouched and a session is bound.
C20_Witness ==
  \E k \in Clients, u \in usuarios, w \in usuarios :
    /\ redeemed # {}
    /\ is_authenticated(k)
    /\ u.reset_token = None /\ u.password_hash = generate_password_hash("pw2")
    /\ w.id # u.id /\ w.reset_token # None
    /\ login(k, "POST", u.email, "pw2").response.target = "index"
    /\ login(k, "POST", u.email, "pw1").response.target = "login.html"

====
